---- MODULE Spec2Model ----
(***************************************************************************)
(* The minimal_unsafe_block lint (clippy_lints/src/minimal_unsafe_block.rs) *)
(* as a state machine.  The input is a HIR expression tree with its type-   *)
(* check tables; the lint framework calls check_expr once on every          *)
(* expression of the tree in each analysis pass.  The outputs are the       *)
(* diagnostics emitted with span_lint and the lines written with eprintln.  *)
(***************************************************************************)
EXTENDS Naturals, Sequences, FiniteSets

(* Number of expressions of the analysed tree. *)
NumNodes == 3

(* Number of analysis passes run over the same, unchanged tree. *)
NumPasses == 2

Nodes == 1..NumNodes
Passes == 1..NumPasses

(***************************************************************************)
(* Input: HIR and semantic information                                      *)
(***************************************************************************)

(* The functions of tests/ui/minimal_unsafe_block.rs. *)
DefIds == {"safe_fn", "unsafe_fn", "safe_method", "unsafe_method"}

(* tcx.fn_sig(def_id).safety *)
fn_sig_safety ==
  [d \in DefIds |-> IF d \in {"safe_fn", "safe_method"} THEN "Safe" ELSE "Unsafe"]

(* The DefKind of a definition: free functions and associated functions. *)
def_kind ==
  [d \in DefIds |-> IF d \in {"safe_fn", "unsafe_fn"} THEN "Fn" ELSE "AssocFn"]

(* Option: None and Some(v). *)
None == [kind |-> "None"]
Some(v) == [kind |-> "Some", val |-> v]

(* What typeck.qpath_res can return for the path of a callee: a definition  *)
(* with its DefKind, or a local variable (e.g. one bound to a closure).     *)
Res ==
  {[kind |-> "Def", def_kind |-> def_kind[d], def_id |-> d] : d \in DefIds}
    \cup {[kind |-> "Local"]}

(* The callee expression of ExprKind::Call(call, _): a path with its         *)
(* resolution, a closure literal, or any other expression (a field access). *)
Callees ==
  {[kind |-> "Path", res |-> r] : r \in Res}
    \cup {[kind |-> "Closure", res |-> None], [kind |-> "Field", res |-> None]}

(* What typeck.type_dependent_def_id can return for a method call. *)
MethodDefs == {None} \cup {Some(d) : d \in {"safe_method", "unsafe_method"}}

(* BlockCheckMode: DefaultBlock, UnsafeBlock(UserProvided),                 *)
(* UnsafeBlock(CompilerGenerated).                                          *)
BlockCheckMode == {"DefaultBlock", "UserProvided", "CompilerGenerated"}

(* Expression kinds without further data in this model.  Unary (as in *p)  *)
(* stands for the kinds the classifier has no arm for.                      *)
PlainKinds == {"Array", "Closure", "If", "Loop", "Tup", "Unary"}

(* An expression: its kind, with the rules of a block, the callee of a call *)
(* and the resolved method of a method call.  block.stmts and block.expr    *)
(* hold the statements (each one expression) and the tail expression of a   *)
(* block, empty and None as long as the block has no children.              *)
Expr(kind, rules, call, method) ==
  [kind |-> kind, rules |-> rules, call |-> call, method |-> method,
   stmts |-> {}, expr |-> None]

Exprs ==
  {Expr(k, "DefaultBlock", None, None) : k \in PlainKinds}
    \cup {Expr("Block", r, None, None) : r \in BlockCheckMode}
    \cup {Expr("Call", "DefaultBlock", c, None) : c \in Callees}
    \cup {Expr("MethodCall", "DefaultBlock", None, m) : m \in MethodDefs}

(* The expressions drawn for the positions whose kind the lint never reads *)
(* beyond "is it a block" (the root, statements, operands, arguments,       *)
(* receivers, bodies): blocks of every mode, a call of unsafe_fn and a call *)
(* of unsafe_method.  A block's tail expression ranges over Exprs.          *)
SubExprs ==
  {e \in Exprs :
     \/ e.kind = "Block"
     \/ e.kind = "Call" /\ e.call.kind = "Path" /\ e.call.res.kind = "Def"
          /\ e.call.res.def_id = "unsafe_fn"
     \/ e.kind = "MethodCall" /\ e.method # None /\ e.method.val = "unsafe_method"}

(* The trees of one node: a root. *)
Roots == {[hir |-> <<e>>, parent |-> <<0>>] : e \in SubExprs}

(* The ways to add one expression to tree t: under a block as a statement   *)
(* or as the tail if the block has none yet, under any other expression as  *)
(* a sub-expression.  Expressions are numbered level by level, so the       *)
(* parent of a new one is not before the parent of the last.                *)
Extend(t) ==
  LET n == Len(t.hir)
      roles(p) == IF t.hir[p].kind = "Block"
                  THEN {"stmt"} \cup (IF t.hir[p].expr = None THEN {"expr"} ELSE {})
                  ELSE {"sub"}
      places == {pr \in (t.parent[n]..n) \X {"stmt", "expr", "sub"} :
                   pr[1] >= 1 /\ pr[2] \in roles(pr[1])}
      under(pr) == CASE pr[2] = "stmt" -> [t.hir EXCEPT ![pr[1]].stmts = @ \cup {n + 1}]
                     [] pr[2] = "expr" -> [t.hir EXCEPT ![pr[1]].expr = Some(n + 1)]
                     [] OTHER -> t.hir
      add(pr, e) == [hir |-> Append(under(pr), e), parent |-> Append(t.parent, pr[1])]
  IN UNION {{add(pr, e) : e \in (IF pr[2] = "expr" THEN Exprs ELSE SubExprs)} : pr \in places}

(* The well-formed trees of n expressions, numbered level by level. *)
RECURSIVE Trees(_)
Trees(n) == IF n = 1 THEN Roots ELSE UNION {Extend(t) : t \in Trees(n - 1)}

VARIABLES
  hir,        \* node -> expression (kind, semantic tables, stmts and expr)
  parent,     \* node -> enclosing expression, 0 for the root
  pass,       \* the running analysis pass
  visited,    \* nodes check_expr was called on in this pass
  lints,      \* pass -> span -> messages emitted with span_lint, in order
  stderr,     \* pass -> lines written with eprintln
  oracle,     \* pass -> calls of is_call_safe and is_fn_safe, with the block classified
  classified  \* pass -> node -> calls of check_user_provided_unsafe_block

vars == <<hir, parent, pass, visited, lints, stderr, oracle, classified>>

(* Variant of span: the span of the tail expression (expr.span) where the   *)
(* block has one.                                                           *)
span_of_tail(b) == IF hir[b].expr # None THEN hir[b].expr.val ELSE b

(* block.span: the source location of a block, one per node. *)
span(b) == b

(***************************************************************************)
(* The lint                                                                 *)
(***************************************************************************)

(* The messages of the lint (the backquotes of the source text left out). *)
StatementsCovered == "this unsafe block is not minimal as it covers statements"
CoversArray == "this unsafe block is not minimal as it covers unnecessarily an array"
CoversBlock == "this unsafe block is not minimal as it covers unnecessarily a block"
CoversClosure == "this unsafe block is not minimal as it covers unnecessarily a closure"
CoversIf == "this unsafe block is not minimal as it covers unnecessarily an if block"
CoversLoop == "this unsafe block is not minimal as it covers unnecessarily a loop block"
CoversTuple == "this unsafe block is not minimal as it covers unnecessarily a tuple"
CoversSafeCall == "this unsafe block is not minimal as it covers unnecessarily a safe call"
CoversSafeMethodCall == "this unsafe block is not minimal as it covers unnecessarily a safe method call"

(* format!: the fixed prefix followed by msg. *)
format(msg) == "this unsafe block is not minimal as " \o msg

(* A function's result together with the lines it wrote with eprintln and  *)
(* the safety queries (is_call_safe, is_fn_safe) made while computing it.   *)
Ret(v, lines, asked) == [ret |-> v, eprintln |-> lines, asked |-> asked]

(* Variant of is_fn_safe: the safety of the signature is not looked at. *)
is_fn_safe_any(def_id) == def_id \in DefIds

(* fn is_fn_safe(tcx, def_id) -> bool *)
is_fn_safe(def_id) == fn_sig_safety[def_id] = "Safe"

(* Variant of is_call_safe: a path resolving to a definition of any DefKind *)
(* is looked up, not only DefKind::Fn.                                      *)
is_call_safe_any_def_kind(n) ==
  LET call == hir[n].call
      self == [fn |-> "is_call_safe", at |-> n]
  IN
  CASE call.kind = "Path" ->
         IF call.res.kind = "Def"
         THEN Ret(is_fn_safe(call.res.def_id), {},
                  {self, [fn |-> "is_fn_safe", at |-> n]})
         ELSE Ret(FALSE, {[line |-> "call path unknown", expr |-> n]}, {self})
    [] call.kind = "Closure" -> Ret(TRUE, {}, {self})
    [] OTHER -> Ret(FALSE, {[line |-> "call unknown", expr |-> n]}, {self})

(* Variant of is_call_safe: without the arm for a closure callee. *)
is_call_safe_no_closure_arm(n) ==
  LET call == hir[n].call
      self == [fn |-> "is_call_safe", at |-> n]
  IN
  CASE call.kind = "Path" ->
         IF call.res.kind = "Def" /\ call.res.def_kind = "Fn"
         THEN Ret(is_fn_safe(call.res.def_id), {},
                  {self, [fn |-> "is_fn_safe", at |-> n]})
         ELSE Ret(FALSE, {[line |-> "call path unknown", expr |-> n]}, {self})
    [] OTHER -> Ret(FALSE, {[line |-> "call unknown", expr |-> n]}, {self})

(* fn is_call_safe(cx, call) -> bool; call is the callee of the call n. *)
is_call_safe(n) ==
  LET call == hir[n].call
      self == [fn |-> "is_call_safe", at |-> n]
  IN
  CASE call.kind = "Path" ->
         IF call.res.kind = "Def" /\ call.res.def_kind = "Fn"
         THEN Ret(is_fn_safe(call.res.def_id), {},
                  {self, [fn |-> "is_fn_safe", at |-> n]})
         ELSE Ret(FALSE, {[line |-> "call path unknown", expr |-> n]}, {self})
    [] call.kind = "Closure" -> Ret(TRUE, {}, {self})
    [] OTHER -> Ret(FALSE, {[line |-> "call unknown", expr |-> n]}, {self})

(* Variant of check_user_provided_unsafe_block_expr: the if arm carries the *)
(* message of the loop arm.                                                 *)
check_user_provided_unsafe_block_expr_arms(block) ==
  IF hir[block].expr = None THEN Ret(None, {}, {})
  ELSE
    LET expr == hir[block].expr.val
        kind == hir[expr].kind
    IN
    CASE kind = "Array" -> Ret(Some("it covers unnecessarily an array"), {}, {})
      [] kind = "Block" -> Ret(Some("it covers unnecessarily a block"), {}, {})
      [] kind = "Closure" -> Ret(Some("it covers unnecessarily a closure"), {}, {})
      [] kind = "If" -> Ret(Some("it covers unnecessarily a loop block"), {}, {})
      [] kind = "Loop" -> Ret(Some("it covers unnecessarily a loop block"), {}, {})
      [] kind = "Tup" -> Ret(Some("it covers unnecessarily a tuple"), {}, {})
      [] kind = "Call" ->
           LET safe == is_call_safe(expr) IN
           IF safe.ret
           THEN Ret(Some("it covers unnecessarily a safe call"), safe.eprintln, safe.asked)
           ELSE Ret(None, safe.eprintln, safe.asked)
      [] kind = "MethodCall" ->
           IF hir[expr].method.kind = "Some"
           THEN IF is_fn_safe(hir[expr].method.val)
                THEN Ret(Some("it covers unnecessarily a safe method call"), {},
                         {[fn |-> "is_fn_safe", at |-> expr]})
                ELSE Ret(None, {}, {[fn |-> "is_fn_safe", at |-> expr]})
           ELSE Ret(None, {}, {})
      [] OTHER -> Ret(None, {[line |-> "unknown", expr |-> expr]}, {})

(* fn check_user_provided_unsafe_block_expr(cx, block) -> Option<&str> *)
check_user_provided_unsafe_block_expr(block) ==
  IF hir[block].expr = None THEN Ret(None, {}, {})
  ELSE
    LET expr == hir[block].expr.val
        kind == hir[expr].kind
    IN
    CASE kind = "Array" -> Ret(Some("it covers unnecessarily an array"), {}, {})
      [] kind = "Block" -> Ret(Some("it covers unnecessarily a block"), {}, {})
      [] kind = "Closure" -> Ret(Some("it covers unnecessarily a closure"), {}, {})
      [] kind = "If" -> Ret(Some("it covers unnecessarily an if block"), {}, {})
      [] kind = "Loop" -> Ret(Some("it covers unnecessarily a loop block"), {}, {})
      [] kind = "Tup" -> Ret(Some("it covers unnecessarily a tuple"), {}, {})
      [] kind = "Call" ->
           LET safe == is_call_safe(expr) IN
           IF safe.ret
           THEN Ret(Some("it covers unnecessarily a safe call"), safe.eprintln, safe.asked)
           ELSE Ret(None, safe.eprintln, safe.asked)
      [] kind = "MethodCall" ->
           IF hir[expr].method.kind = "Some"
           THEN IF is_fn_safe(hir[expr].method.val)
                THEN Ret(Some("it covers unnecessarily a safe method call"), {},
                         {[fn |-> "is_fn_safe", at |-> expr]})
                ELSE Ret(None, {}, {[fn |-> "is_fn_safe", at |-> expr]})
           ELSE Ret(None, {}, {})
      [] OTHER -> Ret(None, {[line |-> "unknown", expr |-> expr]}, {})

(* Variant of check_user_provided_unsafe_block: one statements finding per  *)
(* statement of the block.                                                  *)
check_user_provided_unsafe_block_per_stmt(block) ==
  LET first == [i \in 1..Cardinality(hir[block].stmts) |->
                  "this unsafe block is not minimal as it covers statements"]
      tail == IF hir[block].expr # None
              THEN check_user_provided_unsafe_block_expr(block)
              ELSE Ret(None, {}, {})
      second == IF tail.ret # None THEN <<format(tail.ret.val)>> ELSE <<>>
  IN Ret(first \o second, tail.eprintln, tail.asked)

(* Variant of check_user_provided_unsafe_block: the tail expression is      *)
(* checked only when the block has no statements (else if).                 *)
check_user_provided_unsafe_block_else_if(block) ==
  LET first == IF hir[block].stmts # {}
               THEN <<"this unsafe block is not minimal as it covers statements">>
               ELSE <<>>
      tail == IF hir[block].stmts = {} /\ hir[block].expr # None
              THEN check_user_provided_unsafe_block_expr(block)
              ELSE Ret(None, {}, {})
      second == IF tail.ret # None THEN <<format(tail.ret.val)>> ELSE <<>>
  IN Ret(first \o second, tail.eprintln, tail.asked)

(* fn check_user_provided_unsafe_block(cx, block): the messages it passes   *)
(* to span_lint at block.span, in order, the lines it writes and the        *)
(* safety queries it makes.                                                 *)
check_user_provided_unsafe_block(block) ==
  LET first == IF hir[block].stmts # {}
               THEN <<"this unsafe block is not minimal as it covers statements">>
               ELSE <<>>
      tail == IF hir[block].expr # None
              THEN check_user_provided_unsafe_block_expr(block)
              ELSE Ret(None, {}, {})
      second == IF tail.ret # None THEN <<format(tail.ret.val)>> ELSE <<>>
  IN Ret(first \o second, tail.eprintln, tail.asked)

(* Variant of is_user_provided_unsafe_block: any UnsafeBlock(_), the        *)
(* compiler-generated ones included.                                        *)
is_unsafe_block_of_any_source(n) ==
  hir[n].kind = "Block" /\ hir[n].rules \in {"UserProvided", "CompilerGenerated"}

(* Whether check_expr hands expression n to check_user_provided_unsafe_block:*)
(* a block whose rules are UnsafeBlock(UserProvided).                        *)
is_user_provided_unsafe_block(n) ==
  hir[n].kind = "Block" /\ hir[n].rules = "UserProvided"

(* Variant of check_expr: a pass that remembers its findings and skips a    *)
(* block whose enclosing expression already has one in this pass.           *)
check_expr_skip_reported(n) ==
  /\ n \notin visited
  /\ visited' = visited \cup {n}
  /\ IF /\ hir[n].kind = "Block" /\ hir[n].rules = "UserProvided"
        /\ ~(parent[n] # 0 /\ lints[pass][parent[n]] # <<>>)
     THEN LET out == check_user_provided_unsafe_block(n) IN
          /\ lints' = [lints EXCEPT ![pass][span(n)] = @ \o out.ret]
          /\ stderr' = [stderr EXCEPT ![pass] = @ \cup out.eprintln]
          /\ oracle' = [oracle EXCEPT ![pass] = @ \cup {[block |-> n, query |-> q] : q \in out.asked}]
          /\ classified' = [classified EXCEPT ![pass][n] = @ + 1]
     ELSE UNCHANGED <<lints, stderr, oracle, classified>>
  /\ UNCHANGED <<hir, parent, pass>>

(* LateLintPass::check_expr, called by the lint framework on expression n,  *)
(* once per expression and pass; span_lint appends to the diagnostics at    *)
(* the span it is given.                                                    *)
check_expr(n) ==
  /\ n \notin visited
  /\ visited' = visited \cup {n}
  /\ IF is_user_provided_unsafe_block(n)
     THEN LET out == check_user_provided_unsafe_block(n) IN
          /\ lints' = [lints EXCEPT ![pass][span(n)] = @ \o out.ret]
          /\ stderr' = [stderr EXCEPT ![pass] = @ \cup out.eprintln]
          /\ oracle' = [oracle EXCEPT ![pass] = @ \cup {[block |-> n, query |-> q] : q \in out.asked}]
          /\ classified' = [classified EXCEPT ![pass][n] = @ + 1]
     ELSE UNCHANGED <<lints, stderr, oracle, classified>>
  /\ UNCHANGED <<hir, parent, pass>>

(* The lint framework runs another analysis pass over the same tree, with   *)
(* a new MinimalUnsafeBlock pass object.                                    *)
RunPass ==
  /\ visited = Nodes
  /\ pass < NumPasses
  /\ pass' = pass + 1
  /\ visited' = {}
  /\ UNCHANGED <<hir, parent, lints, stderr, oracle, classified>>

Init ==
  /\ \E s \in Trees(NumNodes - 1) : \E t \in Extend(s) :
       /\ hir = t.hir
       /\ parent = t.parent
  /\ pass = 1
  /\ visited = {}
  /\ lints = [p \in Passes |-> [n \in Nodes |-> <<>>]]
  /\ stderr = [p \in Passes |-> {}]
  /\ oracle = [p \in Passes |-> {}]
  /\ classified = [p \in Passes |-> [n \in Nodes |-> 0]]

Next == (\E n \in Nodes : check_expr(n)) \/ RunPass

Spec == Init /\ [][Next]_vars

(***************************************************************************)
(* Vocabulary of the properties                                             *)
(***************************************************************************)

(* Node n is a user-authored unsafe block. *)
UserBlock(n) == hir[n].kind = "Block" /\ hir[n].rules = "UserProvided"

(* check_expr has been called on node n in pass p. *)
Done(p, n) == p < pass \/ (p = pass /\ n \in visited)

(* The findings reported at the span of node n in pass p. *)
Findings(p, n) == lints[p][n]

HasStmts(b) == hir[b].stmts # {}
HasTail(b) == hir[b].expr # None
TailOf(b) == hir[b].expr.val
Children(n) == {m \in Nodes : parent[m] = n}

(* A classified user-authored unsafe block without statements whose tail    *)
(* expression has one of the kinds ks.                                      *)
SoleTail(p, b, ks) ==
  UserBlock(b) /\ Done(p, b) /\ ~HasStmts(b) /\ HasTail(b) /\ hir[TailOf(b)].kind \in ks

(* How often msg occurs among the findings fs. *)
Occurs(fs, msg) == Cardinality({i \in DOMAIN fs : fs[i] = msg})

TailMessages ==
  {CoversArray, CoversBlock, CoversClosure, CoversIf, CoversLoop, CoversTuple,
   CoversSafeCall, CoversSafeMethodCall}

(* The callee of call e is a path that resolves to a function definition of *)
(* one of the DefKinds ks that is declared safe.                            *)
ResolvesSafe(e, ks) ==
  /\ hir[e].call.kind = "Path"
  /\ hir[e].call.res.kind = "Def"
  /\ hir[e].call.res.def_kind \in ks
  /\ fn_sig_safety[hir[e].call.res.def_id] = "Safe"

(* The finding the tail-expression check has for tail expression e: the     *)
(* table of the classifier, with a call to a path safe only when the path   *)
(* resolves to a free function.                                             *)
TailFinding(e) ==
  LET k == hir[e].kind IN
  CASE k = "Array" -> <<CoversArray>>
    [] k = "Block" -> <<CoversBlock>>
    [] k = "Closure" -> <<CoversClosure>>
    [] k = "If" -> <<CoversIf>>
    [] k = "Loop" -> <<CoversLoop>>
    [] k = "Tup" -> <<CoversTuple>>
    [] k = "Call" ->
         IF hir[e].call.kind = "Closure" \/ ResolvesSafe(e, {"Fn"})
         THEN <<CoversSafeCall>> ELSE <<>>
    [] k = "MethodCall" ->
         IF hir[e].method # None /\ fn_sig_safety[hir[e].method.val] = "Safe"
         THEN <<CoversSafeMethodCall>> ELSE <<>>
    [] OTHER -> <<>>

(***************************************************************************)
(* Properties                                                               *)
(***************************************************************************)

(* C1: a classified user-authored unsafe block with one or more statements  *)
(* has the finding StatementsCovered exactly once, whatever its tail        *)
(* expression is.                                                           *)
StatementsCoveredOnce ==
  \A b \in Nodes : \A p \in Passes :
    (UserBlock(b) /\ Done(p, b) /\ HasStmts(b)) =>
      Occurs(Findings(p, b), StatementsCovered) = 1

(* A block with statements has been classified: one with two statements    *)
(* and no tail expression, or one with a statement and a call as its tail.  *)
StatementsCoveredOnceWitness ==
  \E b \in Nodes :
    /\ UserBlock(b) /\ Done(1, b) /\ HasStmts(b)
    /\ \/ HasTail(b) /\ hir[TailOf(b)].kind = "Call"
       \/ Cardinality(hir[b].stmts) = 2 /\ ~HasTail(b)
    /\ Occurs(Findings(1, b), StatementsCovered) = 1

(* C2, as claimed: a classified user-authored unsafe block with statements  *)
(* and a tail expression has StatementsCovered as its only finding.         *)
TailCheckOnlyWithoutStatements ==
  \A b \in Nodes : \A p \in Passes :
    (UserBlock(b) /\ Done(p, b) /\ HasStmts(b) /\ HasTail(b)) =>
      Findings(p, b) = <<StatementsCovered>>

(* C2, amended: the tail-expression check is evaluated whenever the block   *)
(* has a tail expression; a block with statements and a tail expression has *)
(* StatementsCovered followed by the finding of its tail expression, if     *)
(* any, and a block with statements and no tail has StatementsCovered only. *)
TailCheckAlsoWithStatements ==
  \A b \in Nodes : \A p \in Passes :
    (UserBlock(b) /\ Done(p, b) /\ HasStmts(b)) =>
      Findings(p, b) =
        <<StatementsCovered>> \o (IF HasTail(b) THEN TailFinding(TailOf(b)) ELSE <<>>)

(* A block with a statement and an array as its tail has two findings. *)
TailCheckAlsoWithStatementsWitness ==
  \E b \in Nodes :
    /\ UserBlock(b) /\ Done(1, b) /\ HasStmts(b)
    /\ HasTail(b) /\ hir[TailOf(b)].kind = "Array"
    /\ Findings(1, b) = <<StatementsCovered, CoversArray>>

(* C3: a classified user-authored unsafe block without statements whose    *)
(* tail expression is an array, a nested block, a closure, an if, a loop or *)
(* a tuple has exactly the one finding of that kind, whatever is nested in  *)
(* the tail expression, and no safety query is made in classifying it.      *)
AlwaysNonMinimal ==
  \A b \in Nodes : \A p \in Passes :
    SoleTail(p, b, {"Array", "Block", "Closure", "If", "Loop", "Tup"}) =>
      /\ Findings(p, b) =
           (CASE hir[TailOf(b)].kind = "Array" -> <<CoversArray>>
              [] hir[TailOf(b)].kind = "Block" -> <<CoversBlock>>
              [] hir[TailOf(b)].kind = "Closure" -> <<CoversClosure>>
              [] hir[TailOf(b)].kind = "If" -> <<CoversIf>>
              [] hir[TailOf(b)].kind = "Loop" -> <<CoversLoop>>
              [] hir[TailOf(b)].kind = "Tup" -> <<CoversTuple>>)
      /\ \A q \in oracle[p] : q.block # b

(* An unsafe block whose sole content is an if with an unsafe call nested   *)
(* in it has been classified.                                               *)
AlwaysNonMinimalWitness ==
  \E b \in Nodes :
    /\ SoleTail(1, b, {"If"})
    /\ \E m \in Children(TailOf(b)) :
         hir[m].kind = "Call" /\ hir[m].call.res.def_id = "unsafe_fn"
    /\ Findings(1, b) = <<CoversIf>>

(* C4, as claimed: for a sole tail call whose callee is no closure, the     *)
(* finding is CoversSafeCall when the callee resolves to a function         *)
(* definition declared safe, free or associated, and none otherwise.        *)
SafeCallOfAnyDefKind ==
  \A b \in Nodes : \A p \in Passes :
    (SoleTail(p, b, {"Call"}) /\ hir[TailOf(b)].call.kind # "Closure") =>
      Findings(p, b) =
        (IF ResolvesSafe(TailOf(b), {"Fn", "AssocFn"}) THEN <<CoversSafeCall>> ELSE <<>>)

(* C4, amended: for a sole tail call whose callee is no closure, the        *)
(* finding is CoversSafeCall when the callee is a path that resolves to a   *)
(* free function (DefKind::Fn) declared safe; there is no finding when it   *)
(* resolves to an unsafe function, to an associated function (safe or not), *)
(* to no definition, or is no path.  The arguments never matter.            *)
SafeCallOfFreeFn ==
  \A b \in Nodes : \A p \in Passes :
    (SoleTail(p, b, {"Call"}) /\ hir[TailOf(b)].call.kind # "Closure") =>
      Findings(p, b) =
        (IF ResolvesSafe(TailOf(b), {"Fn"}) THEN <<CoversSafeCall>> ELSE <<>>)

(* An unsafe block whose sole content is a call by path of the safe         *)
(* associated function safe_method, with an unsafe call as argument, has    *)
(* been classified without a finding.                                       *)
SafeCallOfFreeFnWitness ==
  \E b \in Nodes :
    /\ SoleTail(1, b, {"Call"})
    /\ ResolvesSafe(TailOf(b), {"AssocFn"})
    /\ \E m \in Children(TailOf(b)) :
         hir[m].kind = "Call" /\ hir[m].call.res.def_id = "unsafe_fn"
    /\ Findings(1, b) = <<>>

(* C5: for a sole tail method call the finding is CoversSafeMethodCall when *)
(* type-dependent resolution finds a method declared safe, and none when    *)
(* the method is unsafe or not resolved, whatever the receiver chain is.    *)
SafeMethodCall ==
  \A b \in Nodes : \A p \in Passes :
    SoleTail(p, b, {"MethodCall"}) =>
      Findings(p, b) =
        (IF /\ hir[TailOf(b)].method # None
            /\ fn_sig_safety[hir[TailOf(b)].method.val] = "Safe"
         THEN <<CoversSafeMethodCall>> ELSE <<>>)

(* x.unsafe_method().safe_method() as the sole content of an unsafe block   *)
(* has been classified.                                                     *)
SafeMethodCallWitness ==
  \E b \in Nodes :
    /\ SoleTail(1, b, {"MethodCall"})
    /\ hir[TailOf(b)].method # None
    /\ hir[TailOf(b)].method.val = "safe_method"
    /\ \E m \in Children(TailOf(b)) :
         /\ hir[m].kind = "MethodCall" /\ hir[m].method # None
         /\ hir[m].method.val = "unsafe_method"
    /\ Findings(1, b) = <<CoversSafeMethodCall>>

OnlyUserProvidedBlocksClassified ==
  \A n \in Nodes : \A p \in Passes :
    IF UserBlock(n)
    THEN classified[p][n] = (IF Done(p, n) THEN 1 ELSE 0)
    ELSE Findings(p, n) = <<>> /\ classified[p][n] = 0

(* Every pass is over, and the tree holds a compiler-generated unsafe block *)
(* whose tail expression is a user-authored unsafe block: the inner one has *)
(* been classified once, the outer one has no finding.                      *)
OnlyUserProvidedBlocksClassifiedWitness ==
  /\ pass = NumPasses /\ visited = Nodes
  /\ \E n \in Nodes :
       /\ hir[n].kind = "Block" /\ hir[n].rules = "CompilerGenerated"
       /\ HasTail(n) /\ hir[TailOf(n)].kind = "Block"
       /\ UserBlock(TailOf(n))
       /\ classified[1][TailOf(n)] = 1
       /\ Findings(1, n) = <<>>

(* C8, as claimed: a sole tail expression of a kind without an arm gives no *)
(* finding, and no line about it is written to the standard error stream.   *)
UnhandledKindIsSilent ==
  \A b \in Nodes : \A p \in Passes :
    SoleTail(p, b, {"Unary"}) =>
      /\ Findings(p, b) = <<>>
      /\ \A l \in stderr[p] : l.expr # TailOf(b)

(* The content of a block the classifier reads: whether it has statements,  *)
(* the kind of its tail expression and the safety verdict for that tail.    *)
Content(b) ==
  [stmts |-> HasStmts(b),
   tail |-> IF HasTail(b) THEN hir[TailOf(b)].kind ELSE "None",
   safe |-> HasTail(b) /\ TailFinding(TailOf(b)) \in {<<CoversSafeCall>>, <<CoversSafeMethodCall>>}]

(* The findings of a block with the content of b classified on its own. *)
Standalone(b) ==
  (IF HasStmts(b) THEN <<StatementsCovered>> ELSE <<>>)
    \o (IF HasTail(b) THEN TailFinding(TailOf(b)) ELSE <<>>)

(* C9: the findings of a block are in every pass those of the first pass,   *)
(* whatever the visiting orders; two blocks with the same content have the  *)
(* same findings wherever they are in the tree; and in                      *)
(* unsafe { unsafe { .. } } the outer block has CoversBlock and the inner   *)
(* block the findings of its own content.                                   *)
ClassificationIsStateless ==
  /\ \A n \in Nodes : \A p \in Passes :
       Done(p, n) => Findings(p, n) = Findings(1, n)
  /\ \A n, m \in Nodes :
       (n < m /\ UserBlock(n) /\ UserBlock(m) /\ Content(n) = Content(m)) =>
         \A p, q \in Passes :
           (Done(p, n) /\ Done(q, m)) => Findings(p, n) = Findings(q, m)
  /\ \A n \in Nodes : \A p \in Passes :
       (SoleTail(p, n, {"Block"}) /\ UserBlock(TailOf(n)) /\ Done(p, TailOf(n))) =>
         /\ Findings(p, n) = <<CoversBlock>>
         /\ Findings(p, TailOf(n)) = Standalone(TailOf(n))

(* unsafe { unsafe { safe_fn(..) } } has been analysed in two passes. *)
ClassificationIsStatelessWitness ==
  /\ pass = 2 /\ visited = Nodes
  /\ \E n, m \in Nodes :
       /\ SoleTail(1, n, {"Block"}) /\ TailOf(n) = m
       /\ SoleTail(2, m, {"Call"}) /\ ResolvesSafe(TailOf(m), {"Fn"})
       /\ Findings(2, n) = <<CoversBlock>>
       /\ Findings(2, m) = <<CoversSafeCall>>

(* C10: an empty user-authored unsafe block has no finding; a block has at  *)
(* most two findings, StatementsCovered at most once and at most one        *)
(* tail-expression finding (of two findings exactly one is                  *)
(* StatementsCovered); and findings are located at the span of a            *)
(* block only once that very block has been classified, never at the span   *)
(* of the tail expression or of a nested block of the block classified.     *)
AtMostTwoFindings ==
  \A n \in Nodes : \A p \in Passes :
    LET fs == Findings(p, n) IN
    /\ Len(fs) <= 2
    /\ \A i \in DOMAIN fs : fs[i] = StatementsCovered \/ fs[i] \in TailMessages
    /\ Len(fs) = 2 => (fs[1] = StatementsCovered) # (fs[2] = StatementsCovered)
    /\ (UserBlock(n) /\ Done(p, n) /\ ~HasStmts(n) /\ ~HasTail(n)) => fs = <<>>
    /\ fs # <<>> => (UserBlock(n) /\ Done(p, n))

(* A block with two findings encloses an empty unsafe block that has been   *)
(* classified without a finding.                                            *)
AtMostTwoFindingsWitness ==
  \E n, m \in Nodes :
    /\ UserBlock(n) /\ UserBlock(m)
    /\ parent[m] = n /\ Children(m) = {}
    /\ Done(1, n) /\ Done(1, m)
    /\ Len(Findings(1, n)) = 2
    /\ Findings(1, m) = <<>>

====
